---- MODULE Spec2Model ----
(***************************************************************************)
(* The example notebooks of the repository as state machines.  A notebook  *)
(* is a list of cells run top to bottom; a cell that raises halts the run. *)
(* The managed service (training jobs, endpoints) is the environment: it   *)
(* moves a job or an endpoint from one status to the next on its own.      *)
(* The helper functions the notebooks define (batch_predict, to_libsvm)    *)
(* are operators, applied by the actions of their own specifications.      *)
(***************************************************************************)
EXTENDS Integers, Sequences, FiniteSets, TLC

VARIABLES
    nb,              \* the notebook being run
    cell,            \* index of the cell being executed (1-based)
    loc,             \* position inside the cell
    raised,          \* a cell raised: the run has halted
    status,          \* the notebook's variable `status`
    trainingJob,     \* service: TrainingJobStatus of each job name
    submits,         \* number of create_training_job calls per job name
    endpointStatus,  \* service: EndpointStatus of the notebook's endpoint
    modelFrom,       \* history: status of the job when create_model was called
    configCreated,   \* create_endpoint_config was called
    epLog,           \* history: operations issued on the endpoint
    invokedOn,       \* history: values of `status` held when invoke_endpoint was called
    repolledOn,      \* history: values of `status` on which the abalone loop slept and polled again
    printed,         \* what the "confirm both jobs have finished" cell read
    spot,            \* use_spot_instances / max_run / max_wait / checkpoint_s3_uri
    bt,              \* BlazingText batched vector loop variables
    bp,              \* batch_predict harness: the data, the batch size and the results
    ls,              \* to_libsvm harness: the labels, the vectors and the file written
    up,              \* upload_to_s3: the partition, the loop index and the objects uploaded
    cm,              \* COCO category mapper: the id looked up and the outcome
    lab,             \* label stripping: predictions and predictions_copy
    ts,              \* DeepAR data: time_series, time_series_training and the JSON objects
    dp,              \* DeepARPredictor: its attributes, the requests sent and the result
    hp,              \* training split sizes and the hyperparameters set
    vd,              \* visualize_detection: the detections, the threshold and the boxes drawn
    er               \* error_rate: predictions, labels and the value returned

nbVars == <<nb, cell, loc, raised, status, trainingJob, submits, endpointStatus,
            modelFrom, configCreated, epLog, invokedOn, repolledOn, printed, spot, bt>>

\* the variables of the helper-function harnesses
fnVars == <<bp, ls, up, cm, lab, ts, dp, hp, vd, er>>

vars == <<nbVars, fnVars>>

----------------------------------------------------------------------------
(* Bounds of the model *)

\* the BlazingText query list has up to MaxBatches full batches, give or take a word
MaxBatches == 2
\* the endpoint leaves out (or returns an all-zero vector for) at most this many words of a request
MaxDropped == 1
\* cap on the number of requests the BlazingText loop is followed for
MaxRequests == 5
\* batch_predict: the data list has up to MaxItems lines, batch_size is 1..MaxBatchSize
MaxItems == 7
MaxBatchSize == 4
\* to_libsvm: up to MaxExamples labelled vectors of up to MaxDim components each
MaxExamples == 2
MaxDim == 2
\* upload_to_s3: a dataset partition has up to MaxUploadExamples examples
MaxUploadExamples == 11
\* fix_index_mapping: the category ids looked up are 0..MaxCategoryId
MaxCategoryId == 91
\* label stripping: up to MaxPredictions predictions of up to MaxLabels labels each
MaxPredictions == 2
MaxLabels == 2
\* DeepAR: up to MaxSeries series are generated (the notebook makes 200), with levels 1..MaxLevel
MaxSeries == 3
MaxLevel == 3
\* DeepARPredictor: up to MaxPredictCalls predict calls, each on up to MaxRequestSeries series
\* of up to MaxPoints points
MaxPredictCalls == 2
MaxRequestSeries == 2
MaxPoints == 2
\* multi-label split: the list has up to MaxValidationRows rows beyond the 2500 of the training set
MaxValidationRows == 3
\* visualize_detection: up to MaxDetections detections
MaxDetections == 3
\* error_rate: the test file has up to MaxTestLines lines
MaxTestLines == 3

----------------------------------------------------------------------------
(* Python values *)

None == <<>>
Some(x) == <<x>>

Min(a, b) == IF a < b THEN a ELSE b
Max(a, b) == IF a > b THEN a ELSE b

\* len(xs[a:b]) for a list of n items and 0 <= a, 0 <= b
SliceLen(n, a, b) == Max(0, Min(b, n) - Min(a, n))

----------------------------------------------------------------------------
(* The service *)

JobNames == {"single_machine_job_name", "distributed_job_name", "job_name",
             "script_mode_job_name"}

TerminalJobStatus == {"Completed", "Failed", "Stopped"}

\* the service moves a submitted job on: it completes, fails, or is being stopped
\* (StopTrainingJob from the console, or MaxRuntimeInSeconds reached)
ServiceTrainingProgress(j) ==
    /\ \/ /\ trainingJob[j] = "InProgress"
          /\ \E s \in {"Completed", "Failed", "Stopping"} :
                trainingJob' = [trainingJob EXCEPT ![j] = s]
       \/ /\ trainingJob[j] = "Stopping"
          /\ trainingJob' = [trainingJob EXCEPT ![j] = "Stopped"]
    /\ UNCHANGED <<nb, cell, loc, raised, status, submits, endpointStatus, modelFrom,
                   configCreated, epLog, invokedOn, repolledOn, printed, spot, bt, fnVars>>

\* the service brings a created endpoint up, or fails to
ServiceEndpointProgress ==
    /\ endpointStatus = "Creating"
    /\ \E s \in {"InService", "Failed"} : endpointStatus' = s
    /\ UNCHANGED <<nb, cell, loc, raised, status, trainingJob, submits, modelFrom,
                   configCreated, epLog, invokedOn, repolledOn, printed, spot, bt, fnVars>>

----------------------------------------------------------------------------
(* The notebooks: their cells, top to bottom *)

MnistCells ==
    <<"mnist_train", "mnist_confirm", "create_model", "create_endpoint_config",
      "poll_create_endpoint", "invoke_single", "batch_eval", "delete_endpoint">>

AbaloneCells ==
    <<"abalone_train", "create_model", "create_endpoint_config",
      "poll_create_endpoint", "invoke_single", "batch_eval", "delete_endpoint">>

Seq2SeqCells ==
    <<"seq2seq_train", "seq2seq_status_check", "create_model", "create_endpoint_config",
      "seq2seq_create_endpoint", "invoke_json", "invoke_attention", "invoke_protobuf",
      "delete_endpoint">>

\* the language identification notebook without its last cell
LangIdCellsNoDelete == <<"deploy", "predict", "strip_labels">>

LangIdCells == <<"deploy", "predict", "strip_labels", "delete_endpoint">>

BlazingTextCells ==
    <<"fit", "deploy", "predict", "query_words", "vector_loop", "delete_endpoint">>

DeepARCells == <<"fit", "endpoint_from_job", "set_prediction_parameters", "predict",
                 "delete_endpoint">>

ImageClassificationCells == <<"fit", "deploy", "predict", "delete_endpoint">>

ObjectDetectionCells == <<"fit", "deploy", "predict", "delete_endpoint">>

XgbSpotCells == <<"xgb_spot_settings", "fit", "xgb_script_mode_settings", "fit_script_mode">>

OdSpotCells == <<"od_spot_settings", "fit">>

RawNotebooks == {"mnist", "abalone", "seq2seq"}

Notebooks == RawNotebooks \cup
    {"langid", "blazingtext", "deepar", "ic_lst", "ic_multilabel", "od_json",
     "od_recordio", "xgb_spot", "od_spot"}

Cells(n) ==
    CASE n = "mnist" -> MnistCells
      [] n = "abalone" -> AbaloneCells
      [] n = "seq2seq" -> Seq2SeqCells
      [] n = "langid" -> LangIdCells
      [] n = "blazingtext" -> BlazingTextCells
      [] n = "deepar" -> DeepARCells
      [] n \in {"ic_lst", "ic_multilabel"} -> ImageClassificationCells
      [] n \in {"od_json", "od_recordio"} -> ObjectDetectionCells
      [] n = "xgb_spot" -> XgbSpotCells
      [] n = "od_spot" -> OdSpotCells

Done == cell > Len(Cells(nb))

Running == ~raised /\ ~Done

\* the cell being executed
Cur == IF Done THEN "end" ELSE Cells(nb)[cell]

\* the job whose model the notebook deploys
TrainJob(n) == IF n = "mnist" THEN "distributed_job_name" ELSE "job_name"

\* the cell has run to its end: go on with the next one
NextCell == cell' = cell + 1 /\ loc' = "start" /\ raised' = raised

\* the cell raised: the run halts where it is
Raise == raised' = TRUE /\ cell' = cell /\ loc' = loc

\* create_training_job(TrainingJobName = j)
CreateTrainingJob(j) ==
    /\ trainingJob' = [trainingJob EXCEPT ![j] = "InProgress"]
    /\ submits' = [submits EXCEPT ![j] = @ + 1]

\* one more operation issued on the endpoint
Logged(op) ==
    [epLog EXCEPT !.last = op,
                  !.invoked = @ \/ op = "invoke",
                  !.afterDelete = @ \/ epLog.deletes > 0]

----------------------------------------------------------------------------
(* MNIST notebook: two training jobs, a waiter on the distributed one *)

MnistCreateSingle ==
    /\ Running /\ nb = "mnist" /\ Cur = "mnist_train" /\ loc = "start"
    /\ CreateTrainingJob("single_machine_job_name")
    /\ loc' = "single_submitted"
    /\ UNCHANGED <<nb, cell, raised, status, endpointStatus, modelFrom, configCreated,
                   epLog, invokedOn, repolledOn, printed, spot, bt, fnVars>>

MnistCreateDistributed ==
    /\ Running /\ nb = "mnist" /\ Cur = "mnist_train" /\ loc = "single_submitted"
    /\ CreateTrainingJob("distributed_job_name")
    /\ loc' = "describe"
    /\ UNCHANGED <<nb, cell, raised, status, endpointStatus, modelFrom, configCreated,
                   epLog, invokedOn, repolledOn, printed, spot, bt, fnVars>>

MnistDescribe ==
    /\ Running /\ nb = "mnist" /\ Cur = "mnist_train" /\ loc = "describe"
    /\ status' = trainingJob["distributed_job_name"]
    /\ loc' = "wait"
    /\ UNCHANGED <<nb, cell, raised, trainingJob, submits, endpointStatus, modelFrom,
                   configCreated, epLog, invokedOn, repolledOn, printed, spot, bt, fnVars>>

\* get_waiter("training_job_completed_or_stopped").wait: returns once the job is
\* Completed or Stopped; on Failed the library raises, and the notebook's own check
\* below allows for a waiter that returns; it raises too when it runs out of attempts
MnistWaiter ==
    /\ Running /\ nb = "mnist" /\ Cur = "mnist_train" /\ loc = "wait"
    /\ \/ /\ trainingJob["distributed_job_name"] \in TerminalJobStatus
          /\ loc' = "check" /\ UNCHANGED <<cell, raised>>
       \/ /\ trainingJob["distributed_job_name"] \notin {"Completed", "Stopped"}
          /\ Raise
    /\ UNCHANGED <<nb, status, trainingJob, submits, endpointStatus, modelFrom,
                   configCreated, epLog, invokedOn, repolledOn, printed, spot, bt, fnVars>>

MnistCheckFailed ==
    /\ Running /\ nb = "mnist" /\ Cur = "mnist_train" /\ loc = "check"
    /\ status' = trainingJob["distributed_job_name"]
    /\ IF status' = "Failed" THEN Raise ELSE NextCell
    /\ UNCHANGED <<nb, trainingJob, submits, endpointStatus, modelFrom,
                   configCreated, epLog, invokedOn, repolledOn, printed, spot, bt, fnVars>>

\* "Let's confirm both jobs have finished": two describe_training_job calls, printed
MnistConfirm ==
    /\ Running /\ nb = "mnist" /\ Cur = "mnist_confirm"
    /\ printed' = <<trainingJob["single_machine_job_name"],
                    trainingJob["distributed_job_name"]>>
    /\ NextCell
    /\ UNCHANGED <<nb, status, trainingJob, submits, endpointStatus, modelFrom,
                   configCreated, epLog, invokedOn, repolledOn, spot, bt, fnVars>>

----------------------------------------------------------------------------
(* Abalone regression notebook: a sleep-poll loop on the training job *)

AbaloneCreateTrainingJob ==
    /\ Running /\ nb = "abalone" /\ Cur = "abalone_train" /\ loc = "start"
    /\ CreateTrainingJob("job_name")
    /\ loc' = "describe"
    /\ UNCHANGED <<nb, cell, raised, status, endpointStatus, modelFrom, configCreated,
                   epLog, invokedOn, repolledOn, printed, spot, bt, fnVars>>

AbaloneDescribe ==
    /\ Running /\ nb = "abalone" /\ Cur = "abalone_train" /\ loc = "describe"
    /\ status' = trainingJob["job_name"]
    /\ loc' = "while"
    /\ UNCHANGED <<nb, cell, raised, trainingJob, submits, endpointStatus, modelFrom,
                   configCreated, epLog, invokedOn, repolledOn, printed, spot, bt, fnVars>>

\* while status != "Completed" and status != "Failed"
AbaloneLoopTest(s) == s # "Completed" /\ s # "Failed"

\* one test of the loop: either sleep and describe again, or leave the cell
AbaloneWhile ==
    /\ Running /\ nb = "abalone" /\ Cur = "abalone_train" /\ loc = "while"
    /\ IF AbaloneLoopTest(status)
         THEN /\ status' = trainingJob["job_name"]
              /\ repolledOn' = repolledOn \cup {status}
              /\ UNCHANGED <<cell, loc, raised>>
         ELSE /\ NextCell
              /\ UNCHANGED <<status, repolledOn>>
    /\ UNCHANGED <<nb, trainingJob, submits, endpointStatus, modelFrom,
                   configCreated, epLog, invokedOn, printed, spot, bt, fnVars>>

----------------------------------------------------------------------------
(* seq2seq notebook: the job is submitted and its status read, never waited for *)

Seq2SeqCreateTrainingJob ==
    /\ Running /\ nb = "seq2seq" /\ Cur = "seq2seq_train" /\ loc = "start"
    /\ CreateTrainingJob("job_name")
    /\ loc' = "describe"
    /\ UNCHANGED <<nb, cell, raised, status, endpointStatus, modelFrom, configCreated,
                   epLog, invokedOn, repolledOn, printed, spot, bt, fnVars>>

Seq2SeqDescribe ==
    /\ Running /\ nb = "seq2seq" /\ Cur = "seq2seq_train" /\ loc = "describe"
    /\ status' = trainingJob["job_name"]
    /\ NextCell
    /\ UNCHANGED <<nb, trainingJob, submits, endpointStatus, modelFrom,
                   configCreated, epLog, invokedOn, repolledOn, printed, spot, bt, fnVars>>

Seq2SeqStatusCheck ==
    /\ Running /\ nb = "seq2seq" /\ Cur = "seq2seq_status_check"
    /\ status' = trainingJob["job_name"]
    /\ IF status' = "Failed" THEN Raise ELSE NextCell
    /\ UNCHANGED <<nb, trainingJob, submits, endpointStatus, modelFrom,
                   configCreated, epLog, invokedOn, repolledOn, printed, spot, bt, fnVars>>

----------------------------------------------------------------------------
(* Hosting with the low-level client: MNIST, abalone and seq2seq *)

\* info = describe_training_job(...); create_model(ModelDataUrl = info["ModelArtifacts"]...)
CreateModel ==
    /\ Running /\ nb \in RawNotebooks /\ Cur = "create_model"
    /\ modelFrom' = trainingJob[TrainJob(nb)]
    /\ NextCell
    /\ UNCHANGED <<nb, status, trainingJob, submits, endpointStatus, configCreated,
                   epLog, invokedOn, repolledOn, printed, spot, bt, fnVars>>

CreateEndpointConfig ==
    /\ Running /\ nb \in RawNotebooks /\ Cur = "create_endpoint_config"
    /\ configCreated' = TRUE
    /\ NextCell
    /\ UNCHANGED <<nb, status, trainingJob, submits, endpointStatus, modelFrom,
                   epLog, invokedOn, repolledOn, printed, spot, bt, fnVars>>

\* create_endpoint(EndpointName = endpoint_name, ...)
CreateEndpoint ==
    /\ Running /\ nb \in RawNotebooks
    /\ Cur \in {"poll_create_endpoint", "seq2seq_create_endpoint"} /\ loc = "start"
    /\ endpointStatus' = "Creating"
    /\ epLog' = [Logged("create") EXCEPT !.creates = @ + 1]
    /\ loc' = "describe"
    /\ UNCHANGED <<nb, cell, raised, status, trainingJob, submits, modelFrom, configCreated,
                   invokedOn, repolledOn, printed, spot, bt, fnVars>>

\* resp = describe_endpoint(...); status = resp["EndpointStatus"]
DescribeEndpoint ==
    /\ Running /\ nb \in RawNotebooks
    /\ Cur \in {"poll_create_endpoint", "seq2seq_create_endpoint"} /\ loc = "describe"
    /\ status' = endpointStatus
    /\ epLog' = Logged("describe")
    /\ loc' = IF Cur = "poll_create_endpoint" THEN "while" ELSE "wait"
    /\ UNCHANGED <<nb, cell, raised, trainingJob, submits, endpointStatus, modelFrom,
                   configCreated, invokedOn, repolledOn, printed, spot, bt, fnVars>>

\* MNIST and abalone: while status == "Creating": sleep, describe again; then print
EndpointWhile ==
    /\ Running /\ Cur = "poll_create_endpoint" /\ loc = "while"
    /\ IF status = "Creating"
         THEN /\ status' = endpointStatus
              /\ epLog' = Logged("describe")
              /\ UNCHANGED <<cell, loc, raised>>
         ELSE /\ NextCell
              /\ UNCHANGED <<status, epLog>>
    /\ UNCHANGED <<nb, trainingJob, submits, endpointStatus, modelFrom,
                   configCreated, invokedOn, repolledOn, printed, spot, bt, fnVars>>

\* seq2seq: get_waiter('endpoint_in_service').wait: returns once the endpoint is
\* InService; on Failed the library raises, and the notebook's own check below allows
\* for a waiter that returns; it raises too when it runs out of attempts
Seq2SeqEndpointWaiter ==
    /\ Running /\ Cur = "seq2seq_create_endpoint" /\ loc = "wait"
    /\ \/ /\ endpointStatus # "Creating"
          /\ loc' = "check" /\ UNCHANGED <<cell, raised>>
       \/ /\ endpointStatus # "InService"
          /\ Raise
    /\ epLog' = Logged("describe")
    /\ UNCHANGED <<nb, status, trainingJob, submits, endpointStatus, modelFrom,
                   configCreated, invokedOn, repolledOn, printed, spot, bt, fnVars>>

\* the same check deleting the endpoint before it raises
Seq2SeqEndpointCheckWithCleanup ==
    /\ Running /\ Cur = "seq2seq_create_endpoint" /\ loc = "check"
    /\ status' = endpointStatus
    /\ IF status' # "InService"
         THEN /\ Raise
              /\ epLog' = [Logged("delete") EXCEPT !.deletes = @ + 1]
              /\ endpointStatus' = "Deleted"
         ELSE /\ NextCell
              /\ epLog' = Logged("describe")
              /\ UNCHANGED endpointStatus
    /\ UNCHANGED <<nb, trainingJob, submits, modelFrom,
                   configCreated, invokedOn, repolledOn, printed, spot, bt, fnVars>>

\* seq2seq: if status != 'InService': raise Exception('Endpoint creation failed.')
Seq2SeqEndpointCheck ==
    /\ Running /\ Cur = "seq2seq_create_endpoint" /\ loc = "check"
    /\ status' = endpointStatus
    /\ epLog' = Logged("describe")
    /\ IF status' # "InService" THEN Raise ELSE NextCell
    /\ UNCHANGED <<nb, trainingJob, submits, endpointStatus, modelFrom,
                   configCreated, invokedOn, repolledOn, printed, spot, bt, fnVars>>

\* the cells that call invoke_endpoint (directly, through batch_predict, or through
\* a predictor's predict)
InvokeCells == {"invoke_single", "batch_eval", "invoke_json", "invoke_attention",
                "invoke_protobuf", "predict"}

\* the call is issued whatever the notebook last saw; the service refuses it (the
\* client raises) unless the endpoint is in service
InvokeEndpoint ==
    /\ Running /\ Cur \in InvokeCells
    /\ invokedOn' = invokedOn \cup {status}
    /\ epLog' = Logged("invoke")
    /\ IF endpointStatus = "InService" THEN NextCell ELSE Raise
    /\ UNCHANGED <<nb, status, trainingJob, submits, endpointStatus, modelFrom,
                   configCreated, repolledOn, printed, spot, bt, fnVars>>

\* delete_endpoint(EndpointName = endpoint_name); the service refuses a second deletion
DeleteEndpoint ==
    /\ Running /\ Cur = "delete_endpoint"
    /\ epLog' = [Logged("delete") EXCEPT !.deletes = @ + 1]
    /\ IF endpointStatus \in {"NotCreated", "Deleted"}
         THEN Raise /\ UNCHANGED endpointStatus
         ELSE NextCell /\ endpointStatus' = "Deleted"
    /\ UNCHANGED <<nb, status, trainingJob, submits, modelFrom,
                   configCreated, invokedOn, repolledOn, printed, spot, bt, fnVars>>

\* cells that touch neither a job nor the endpoint (label stripping, predictor set-up)
LocalCells == {"strip_labels", "set_prediction_parameters"}

LocalCell ==
    /\ Running /\ Cur \in LocalCells
    /\ NextCell
    /\ UNCHANGED <<nb, status, trainingJob, submits, endpointStatus, modelFrom,
                   configCreated, epLog, invokedOn, repolledOn, printed, spot, bt, fnVars>>

----------------------------------------------------------------------------
(* Notebooks on the high-level SDK: fit, deploy, predict, delete_endpoint *)

\* the job an estimator's fit submits
FitJob == IF Cur = "fit_script_mode" THEN "script_mode_job_name" ELSE TrainJob(nb)

\* estimator.fit(...): submits the job ...
SdkFit ==
    /\ Running /\ Cur \in {"fit", "fit_script_mode"} /\ loc = "start"
    /\ CreateTrainingJob(FitJob)
    /\ loc' = "wait"
    /\ UNCHANGED <<nb, cell, raised, status, endpointStatus, modelFrom, configCreated,
                   epLog, invokedOn, repolledOn, printed, spot, bt, fnVars>>

\* ... and blocks until it has ended, raising if it failed
SdkFitWait ==
    /\ Running /\ Cur \in {"fit", "fit_script_mode"} /\ loc = "wait"
    /\ trainingJob[FitJob] \in TerminalJobStatus
    /\ IF trainingJob[FitJob] = "Failed" THEN Raise ELSE NextCell
    /\ UNCHANGED <<nb, status, trainingJob, submits, endpointStatus, modelFrom,
                   configCreated, epLog, invokedOn, repolledOn, printed, spot, bt, fnVars>>

\* model.deploy(...) / endpoint_from_job(...): creates the model, the endpoint
\* configuration and the endpoint ...
SdkDeploy ==
    /\ Running /\ Cur \in {"deploy", "endpoint_from_job"} /\ loc = "start"
    /\ modelFrom' = trainingJob[TrainJob(nb)]
    /\ configCreated' = TRUE
    /\ endpointStatus' = "Creating"
    /\ epLog' = [Logged("create") EXCEPT !.creates = @ + 1]
    /\ loc' = "wait"
    /\ UNCHANGED <<nb, cell, raised, status, trainingJob, submits,
                   invokedOn, repolledOn, printed, spot, bt, fnVars>>

\* ... and blocks until the endpoint is in service, raising if its creation failed
SdkDeployWait ==
    /\ Running /\ Cur \in {"deploy", "endpoint_from_job"} /\ loc = "wait"
    /\ endpointStatus # "Creating"
    /\ epLog' = Logged("describe")
    /\ IF endpointStatus = "InService" THEN NextCell ELSE Raise
    /\ UNCHANGED <<nb, status, trainingJob, submits, endpointStatus, modelFrom,
                   configCreated, invokedOn, repolledOn, printed, spot, bt, fnVars>>

----------------------------------------------------------------------------
(* BlazingText notebook: word vectors fetched in batches *)

batch_size == 500

\* the lengths of query_words the model follows: whole batches, give or take a word
TotalWordsChoices ==
    {n \in {b * batch_size + r : b \in 0..MaxBatches, r \in {-1, 0, 1}} : n >= 0}

\* query_words = list(set(query_words)); total_words = len(query_words); vectors = {}
BtQueryWords ==
    /\ Running /\ nb = "blazingtext" /\ Cur = "query_words"
    /\ \E n \in TotalWordsChoices :
          bt' = [bt EXCEPT !.total_words = n, !.nvectors = 0]
    /\ NextCell
    /\ UNCHANGED <<nb, status, trainingJob, submits, endpointStatus, modelFrom,
                   configCreated, epLog, invokedOn, repolledOn, printed, spot, fnVars>>

\* batch_start = 0; batch_end = batch_start + batch_size
BtLoopInit ==
    /\ Running /\ nb = "blazingtext" /\ Cur = "vector_loop" /\ loc = "start"
    /\ bt' = [bt EXCEPT !.batch_start = 0, !.batch_end = 0 + batch_size]
    /\ loc' = "while"
    /\ UNCHANGED <<nb, cell, raised, status, trainingJob, submits, endpointStatus, modelFrom,
                   configCreated, epLog, invokedOn, repolledOn, printed, spot, fnVars>>

\* while len(vectors) != total_words
BtLoopTest(b) == b.nvectors # b.total_words

\* one test of the loop.  The body sends query_words[batch_start:batch_end]; the
\* endpoint answers with one entry per word it knows, and the body keeps the
\* entries whose vector is not all zero: k of the words sent.  The words are
\* distinct (a set), so each kept entry is a new key of vectors.
BtWhile ==
    /\ Running /\ nb = "blazingtext" /\ Cur = "vector_loop" /\ loc = "while"
    /\ IF BtLoopTest(bt)
         THEN /\ bt.requests < MaxRequests
              /\ LET end == Min(bt.batch_end, bt.total_words)
                     sent == SliceLen(bt.total_words, bt.batch_start, end)
                 IN  \E k \in (sent - Min(sent, MaxDropped))..sent :
                        bt' = [bt EXCEPT !.nvectors = @ + k,
                                         !.requests = @ + 1,
                                         !.maxPayload = Max(@, sent),
                                         !.batch_start = @ + batch_size,
                                         !.batch_end = end + batch_size]
              /\ invokedOn' = invokedOn \cup {status}
              /\ epLog' = Logged("invoke")
              /\ IF endpointStatus = "InService"
                   THEN UNCHANGED <<cell, loc, raised>>
                   ELSE Raise
         ELSE /\ NextCell
              /\ UNCHANGED <<bt, invokedOn, epLog>>
    /\ UNCHANGED <<nb, status, trainingJob, submits, endpointStatus, modelFrom,
                   configCreated, repolledOn, printed, spot, fnVars>>

----------------------------------------------------------------------------
(* Managed spot training notebooks: the settings cell *)

SpotUnset ==
    [defined |-> FALSE, use_spot_instances |-> FALSE, max_run |-> None,
     max_wait |-> None, checkpoint_s3_uri |-> None]

\* XGBoost settings with max_wait set whatever the toggle
XgbSpotParamsAlwaysWait(use_spot_instances) ==
    [defined |-> TRUE,
     use_spot_instances |-> use_spot_instances,
     max_run |-> Some(3600),
     max_wait |-> Some(7200),
     checkpoint_s3_uri |->
        IF use_spot_instances THEN Some("s3://bucket/prefix/checkpoints/job_name") ELSE None]

\* XGBoost: max_run = 3600; max_wait = 7200 if use_spot_instances else None;
\* checkpoint_s3_uri = 's3://.../checkpoints/<job_name>' if use_spot_instances else None
XgbSpotParams(use_spot_instances) ==
    [defined |-> TRUE,
     use_spot_instances |-> use_spot_instances,
     max_run |-> Some(3600),
     max_wait |-> IF use_spot_instances THEN Some(7200) ELSE None,
     checkpoint_s3_uri |->
        IF use_spot_instances THEN Some("s3://bucket/prefix/checkpoints/job_name") ELSE None]

\* object detection: train_max_run = 3600;
\* train_max_wait = 3600 if train_use_spot_instances else None; no checkpoint_s3_uri
OdSpotParams(train_use_spot_instances) ==
    [defined |-> TRUE,
     use_spot_instances |-> train_use_spot_instances,
     max_run |-> Some(3600),
     max_wait |-> IF train_use_spot_instances THEN Some(3600) ELSE None,
     checkpoint_s3_uri |-> None]

\* the reader sets the toggle either way before running the cell
XgbSpotSettings ==
    /\ Running /\ nb = "xgb_spot" /\ Cur = "xgb_spot_settings"
    /\ \E toggle \in BOOLEAN : spot' = XgbSpotParams(toggle)
    /\ NextCell
    /\ UNCHANGED <<nb, status, trainingJob, submits, endpointStatus, modelFrom,
                   configCreated, epLog, invokedOn, repolledOn, printed, bt, fnVars>>

\* script mode: checkpoint_s3_uri is computed again for the new job name
XgbScriptModeSettings ==
    /\ Running /\ nb = "xgb_spot" /\ Cur = "xgb_script_mode_settings"
    /\ spot' = [spot EXCEPT !.checkpoint_s3_uri =
                   IF spot.use_spot_instances
                     THEN Some("s3://bucket/prefix/checkpoints/script_mode_job_name")
                     ELSE None]
    /\ NextCell
    /\ UNCHANGED <<nb, status, trainingJob, submits, endpointStatus, modelFrom,
                   configCreated, epLog, invokedOn, repolledOn, printed, bt, fnVars>>

OdSpotSettings ==
    /\ Running /\ nb = "od_spot" /\ Cur = "od_spot_settings"
    /\ \E toggle \in BOOLEAN : spot' = OdSpotParams(toggle)
    /\ NextCell
    /\ UNCHANGED <<nb, status, trainingJob, submits, endpointStatus, modelFrom,
                   configCreated, epLog, invokedOn, repolledOn, printed, bt, fnVars>>

----------------------------------------------------------------------------
(* The notebook runs *)

\* a fresh kernel and an account with none of the notebook's resources
NotebookStart ==
    /\ cell = 1 /\ loc = "start" /\ raised = FALSE /\ status = "unset"
    /\ trainingJob = [j \in JobNames |-> "NotCreated"]
    /\ submits = [j \in JobNames |-> 0]
    /\ endpointStatus = "NotCreated"
    /\ modelFrom = "none"
    /\ configCreated = FALSE
    /\ epLog = [creates |-> 0, deletes |-> 0, invoked |-> FALSE, last |-> "none",
                afterDelete |-> FALSE]
    /\ invokedOn = {}
    /\ repolledOn = {}
    /\ printed = <<>>
    /\ spot = SpotUnset
    /\ bt = [total_words |-> 0, nvectors |-> 0, batch_start |-> 0, batch_end |-> 0,
             requests |-> 0, maxPayload |-> 0]

\* no helper function has been called, h (if it names one) left aside
OnlyHelper(h) ==
    /\ IF h = "bp" THEN TRUE ELSE bp = <<>>
    /\ IF h = "ls" THEN TRUE ELSE ls = <<>>
    /\ IF h = "up" THEN TRUE ELSE up = <<>>
    /\ IF h = "cm" THEN TRUE ELSE cm = <<>>
    /\ IF h = "lab" THEN TRUE ELSE lab = <<>>
    /\ IF h = "ts" THEN TRUE ELSE ts = <<>>
    /\ IF h = "dp" THEN TRUE ELSE dp = <<>>
    /\ IF h = "hp" THEN TRUE ELSE hp = <<>>
    /\ IF h = "vd" THEN TRUE ELSE vd = <<>>
    /\ IF h = "er" THEN TRUE ELSE er = <<>>

FnIdle == OnlyHelper("none")

Init == nb \in Notebooks /\ NotebookStart /\ FnIdle

Next ==
    \/ \E j \in JobNames : ServiceTrainingProgress(j)
    \/ ServiceEndpointProgress
    \/ MnistCreateSingle
    \/ MnistCreateDistributed
    \/ MnistDescribe
    \/ MnistWaiter
    \/ MnistCheckFailed
    \/ MnistConfirm
    \/ AbaloneCreateTrainingJob
    \/ AbaloneDescribe
    \/ AbaloneWhile
    \/ Seq2SeqCreateTrainingJob
    \/ Seq2SeqDescribe
    \/ Seq2SeqStatusCheck
    \/ CreateModel
    \/ CreateEndpointConfig
    \/ CreateEndpoint
    \/ DescribeEndpoint
    \/ EndpointWhile
    \/ Seq2SeqEndpointWaiter
    \/ Seq2SeqEndpointCheck
    \/ InvokeEndpoint
    \/ DeleteEndpoint
    \/ LocalCell
    \/ SdkFit
    \/ SdkFitWait
    \/ SdkDeploy
    \/ SdkDeployWait
    \/ BtQueryWords
    \/ BtLoopInit
    \/ BtWhile
    \/ XgbSpotSettings
    \/ XgbScriptModeSettings
    \/ OdSpotSettings

Spec == Init /\ [][Next]_vars

----------------------------------------------------------------------------
(* Python lists *)

\* list(range(start, stop, step)) for step >= 1
RECURSIVE PyRange(_, _, _)
PyRange(start, stop, step) ==
    IF start >= stop THEN <<>> ELSE <<start>> \o PyRange(start + step, stop, step)

\* xs[a:b] for 0 <= a and 0 <= b
Slice(xs, a, b) == SubSeq(xs, Min(a, Len(xs)) + 1, Min(b, Len(xs)))

\* the list after arrs.extend(r) for each r of rs in turn
RECURSIVE Extend(_)
Extend(rs) == IF rs = <<>> THEN <<>> ELSE Head(rs) \o Extend(Tail(rs))

\* sep.join(parts)
RECURSIVE Join(_, _)
Join(sep, parts) ==
    IF parts = <<>> THEN <<>>
    ELSE IF Len(parts) = 1 THEN parts[1]
    ELSE parts[1] \o sep \o Join(sep, Tail(parts))

----------------------------------------------------------------------------
(* batch_predict of the MNIST and of the abalone notebook *)

\* The endpoint answers a payload of lines with one score per line, comma
\* separated.  A score is kept in tenths (15 is 1.5); line x scores x.5.
EndpointScore(x) == 10 * x + 5

\* math.ceil of a score in tenths
Ceil(tenths) == (tenths + 9) \div 10

\* MNIST do_predict: preds = [float(num) for num in result.split(",")]
MnistDoPredict(data) == [i \in 1..Len(data) |-> EndpointScore(data[i])]

\* abalone do_predict: the same, then preds = [math.ceil(num) for num in preds]
AbaloneDoPredict(data) == [i \in 1..Len(data) |-> Ceil(EndpointScore(data[i]))]

\* MNIST batch_predict: the batches handed to do_predict, in order:
\* for offset in range(0, items, batch_size): data[offset : min(offset + batch_size, items)]
MnistBatches(data, bsize) ==
    LET items == Len(data)
        offsets == PyRange(0, items, bsize)
    IN  [k \in 1..Len(offsets) |->
            Slice(data, offsets[k], Min(offsets[k] + bsize, items))]

\* abalone batch_predict dropping the last, shorter batch
AbaloneBatchesFullOnly(data, bsize) ==
    LET items == Len(data)
        offsets == PyRange(0, items, bsize)
    IN  SelectSeq([k \in 1..Len(offsets) |-> Slice(data, offsets[k], offsets[k] + bsize)],
                  LAMBDA b : Len(b) = bsize)

\* abalone batch_predict: for offset in range(0, items, batch_size):
\*   if offset + batch_size < items: data[offset : offset + batch_size]
\*   else: data[offset : items]
AbaloneBatches(data, bsize) ==
    LET items == Len(data)
        offsets == PyRange(0, items, bsize)
    IN  [k \in 1..Len(offsets) |->
            IF offsets[k] + bsize < items
              THEN Slice(data, offsets[k], offsets[k] + bsize)
              ELSE Slice(data, offsets[k], items)]

\* arrs: the results of the do_predict calls, extended in order
MnistBatchPredict(data, bsize) ==
    LET calls == MnistBatches(data, bsize)
    IN  [calls |-> calls,
         arrs |-> Extend([k \in 1..Len(calls) |-> MnistDoPredict(calls[k])])]

AbaloneBatchPredict(data, bsize) ==
    LET calls == AbaloneBatches(data, bsize)
    IN  [calls |-> calls,
         arrs |-> Extend([k \in 1..Len(calls) |-> AbaloneDoPredict(calls[k])])]

NotRun == [calls |-> <<>>, arrs |-> <<>>]

\* the test file has n lines; line i is told apart by its number
BatchInit ==
    \E n \in 0..MaxItems, b \in 1..MaxBatchSize :
        bp = [data |-> [i \in 1..n |-> i], batch_size |-> b, ran |-> {},
              mnist |-> NotRun, abalone |-> NotRun]

RunMnistBatchPredict ==
    /\ "mnist" \notin bp.ran
    /\ bp' = [bp EXCEPT !.ran = @ \cup {"mnist"},
                        !.mnist = MnistBatchPredict(bp.data, bp.batch_size)]
    /\ UNCHANGED <<nbVars, ls, up, cm, lab, ts, dp, hp, vd, er>>

RunAbaloneBatchPredict ==
    /\ "abalone" \notin bp.ran
    /\ bp' = [bp EXCEPT !.ran = @ \cup {"abalone"},
                        !.abalone = AbaloneBatchPredict(bp.data, bp.batch_size)]
    /\ UNCHANGED <<nbVars, ls, up, cm, lab, ts, dp, hp, vd, er>>

\* no notebook is run while a helper function is exercised
NotebookIdle == nb = "none" /\ NotebookStart

InitBatch == NotebookIdle /\ BatchInit /\ OnlyHelper("bp")

NextBatch == RunMnistBatchPredict \/ RunAbaloneBatchPredict

SpecBatch == InitBatch /\ [][NextBatch]_vars

----------------------------------------------------------------------------
(* to_libsvm of the MNIST notebook *)

\* text is a sequence of characters
NL == "\n"
DigitChars == <<"0", "1", "2", "3", "4", "5", "6", "7", "8", "9">>

\* '{}'.format(n) for a natural number n
RECURSIVE Str(_)
Str(n) == IF n < 10 THEN <<DigitChars[n + 1]>>
          ELSE Str(n \div 10) \o <<DigitChars[(n % 10) + 1]>>

\* list(enumerate(vec)): pairs (i, el) with i from 0
Enumerate(vec) == [k \in 1..Len(vec) |-> <<k - 1, vec[k]>>]

\* the pair written for component i of a vector, numbered from 0 instead of 1
FeaturePairFromZero(i, el) == Str(i) \o <<":">> \o Str(el)

\* '{}:{}'.format(i + 1, el)
FeaturePair(i, el) == Str(i + 1) \o <<":">> \o Str(el)

\* zip(labels, values)
Zip(labels, values) ==
    [k \in 1..Min(Len(labels), Len(values)) |-> <<labels[k], values[k]>>]

\* '{} {}'.format(label, ' '.join([... for i, el in enumerate(vec)]))
LibsvmLine(label, vec) ==
    LET pairs == Enumerate(vec)
    IN  Str(label) \o <<" ">> \o
        Join(<<" ">>, [k \in 1..Len(pairs) |-> FeaturePair(pairs[k][1], pairs[k][2])])

\* to_libsvm(f, labels, values): f.write(bytes('\n'.join([...]), 'utf-8')); return f
to_libsvm(f, labels, values) ==
    LET zipped == Zip(labels, values)
        lines == [k \in 1..Len(zipped) |-> LibsvmLine(zipped[k][1], zipped[k][2])]
    IN  [f EXCEPT !.content = @ \o Join(<<NL>>, lines)]

LabelChoices == {0, 9}
ValueChoices == {0, 10}

RECURSIVE SeqsUpTo(_, _)
\* the sequences over S of length at most n
SeqsUpTo(S, n) ==
    IF n = 0 THEN {<<>>}
    ELSE LET shorter == SeqsUpTo(S, n - 1)
         IN  shorter \cup {Append(q, x) : q \in shorter, x \in S}

\* upload_to_s3 hands to_libsvm a fresh io.BytesIO() and label and vector lists
\* of the same length
LibsvmInit ==
    \E n \in 0..MaxExamples :
        \E labels \in [1..n -> LabelChoices], values \in [1..n -> SeqsUpTo(ValueChoices, MaxDim)] :
            ls = [labels |-> labels, values |-> values,
                  f |-> [object |-> "BytesIO", content |-> <<>>],
                  returned |-> [object |-> "none", content |-> <<>>]]

RunToLibsvm ==
    /\ ls.returned.object = "none"
    /\ LET out == to_libsvm(ls.f, ls.labels, ls.values)
       IN  ls' = [ls EXCEPT !.f = out, !.returned = out]
    /\ UNCHANGED <<nbVars, bp, up, cm, lab, ts, dp, hp, vd, er>>

InitLibsvm == NotebookIdle /\ LibsvmInit /\ OnlyHelper("ls")

NextLibsvm == RunToLibsvm

SpecLibsvm == InitLibsvm /\ [][NextLibsvm]_vars

----------------------------------------------------------------------------
(* upload_to_s3 of the MNIST notebook *)

num_partition == 5

PartitionNames == {"train", "validation", "test"}

\* a dataset partition of n examples: example k has the digit k mod 10 as its
\* label and a vector that tells it apart from the others
Dataset(n) == [labels |-> [k \in 1..n |-> (k - 1) % 10], vectors |-> [k \in 1..n |-> <<k>>]]

\* convert_data calls upload_to_s3(partition_name, partition) for each partition;
\* labels, vectors, num_partition and partition_bound = int(len(labels) / num_partition)
\* are set, and the loop is about to start
UploadInit ==
    \E name \in PartitionNames, n \in 0..MaxUploadExamples :
        up = [partition_name |-> name,
              labels |-> Dataset(n).labels,
              vectors |-> Dataset(n).vectors,
              partition_bound |-> n \div num_partition,
              i |-> 0,
              bucket |-> <<>>]

\* one turn of `for i in range(num_partition)`: the slice
\* [i * partition_bound : (i + 1) * partition_bound] of the labels and of the
\* vectors goes through to_libsvm into a fresh BytesIO, which write_to_s3 uploads
\* under <prefix>/<partition_name>/examples<i>
UploadToS3 ==
    /\ up.i < num_partition
    /\ LET f == [object |-> "BytesIO", content |-> <<>>]
           lo == up.i * up.partition_bound
           hi == (up.i + 1) * up.partition_bound
           written == to_libsvm(f, Slice(up.labels, lo, hi), Slice(up.vectors, lo, hi))
           key == <<up.partition_name, "examples", up.i>>
       IN  up' = [up EXCEPT !.i = @ + 1,
                            !.bucket = Append(@, [key |-> key, body |-> written.content])]
    /\ UNCHANGED <<nbVars, bp, ls, cm, lab, ts, dp, hp, vd, er>>

InitUpload == NotebookIdle /\ UploadInit /\ OnlyHelper("up")

NextUpload == UploadToS3

SpecUpload == InitUpload /\ [][NextUpload]_vars

----------------------------------------------------------------------------
(* get_coco_mapper and fix_index_mapping of the object detection notebook *)

original_list ==
    <<1, 2, 3, 4, 5, 6, 7, 8, 9, 10, 11, 13, 14, 15, 16, 17, 18, 19, 20,
      21, 22, 23, 24, 25, 27, 28, 31, 32, 33, 34, 35, 36, 37, 38, 39, 40,
      41, 42, 43, 44, 46, 47, 48, 49, 50, 51, 52, 53, 54, 55, 56, 57, 58, 59, 60,
      61, 62, 63, 64, 65, 67, 70, 72, 73, 74, 75, 76, 77, 78, 79, 80,
      81, 82, 84, 85, 86, 87, 88, 89, 90>>

\* d[key] = value on a dict d: a new key is added, an existing one overwritten
DictSet(d, key, value) ==
    [k \in DOMAIN d \cup {key} |-> IF k = key THEN value ELSE d[k]]

\* a look-up that answers 0 for a key the dict does not hold
MapperWithDefault(map, in_category) ==
    IF in_category \in DOMAIN map
      THEN [raised |-> FALSE, value |-> map[in_category]]
      ELSE [raised |-> FALSE, value |-> 0]

\* mapper(in_category): return map[in_category], a KeyError if the key is missing
Mapper(map, in_category) ==
    IF in_category \in DOMAIN map
      THEN [raised |-> FALSE, value |-> map[in_category]]
      ELSE [raised |-> TRUE, value |-> -1]

\* get_coco_mapper: iter_counter = 0; COCO = {}; the loop is about to start
CocoInit ==
    cm = [COCO |-> <<>>, iter_counter |-> 0, next |-> 1, built |-> FALSE,
          in_category |-> -1, result |-> [raised |-> FALSE, value |-> -1]]

\* one turn of `for orig in original_list`: COCO[orig] = iter_counter; iter_counter += 1;
\* after the last one get_coco_mapper returns COCO and get_mapper_fn wraps it
GetCocoMapper ==
    /\ ~cm.built
    /\ LET orig == original_list[cm.next]
       IN  cm' = [cm EXCEPT !.COCO = DictSet(@, orig, cm.iter_counter),
                            !.iter_counter = @ + 1,
                            !.next = @ + 1,
                            !.built = (cm.next = Len(original_list))]
    /\ UNCHANGED <<nbVars, bp, ls, up, lab, ts, dp, hp, vd, er>>

\* fix_index_mapping(j['category_id']) for a category id of the annotation file
FixIndexMapping ==
    /\ cm.built
    /\ \E in_category \in 0..MaxCategoryId :
          cm' = [cm EXCEPT !.in_category = in_category,
                           !.result = Mapper(cm.COCO, in_category)]
    /\ UNCHANGED <<nbVars, bp, ls, up, lab, ts, dp, hp, vd, er>>

InitCoco == NotebookIdle /\ CocoInit /\ OnlyHelper("cm")

NextCoco == GetCocoMapper \/ FixIndexMapping

SpecCoco == InitCoco /\ [][NextCoco]_vars

----------------------------------------------------------------------------
(* Label stripping of the language identification notebook *)

\* '__label__', the prefix FastText puts before a class label
LabelPrefix == <<"_", "_", "l", "a", "b", "e", "l", "_", "_">>

\* the language codes the model answers with
Languages == {<<"e", "n">>, <<"f", "r">>}

LowerCase == <<"a", "b", "c", "d", "e", "f", "g", "h", "i", "j", "k", "l", "m",
               "n", "o", "p", "q", "r", "s", "t", "u", "v", "w", "x", "y", "z">>

UpperCase == <<"A", "B", "C", "D", "E", "F", "G", "H", "I", "J", "K", "L", "M",
               "N", "O", "P", "Q", "R", "S", "T", "U", "V", "W", "X", "Y", "Z">>

\* str.upper(): a lower-case letter becomes its capital, anything else stays
Upper(text) ==
    [i \in 1..Len(text) |->
        IF \E c \in 1..26 : LowerCase[c] = text[i]
          THEN UpperCase[CHOOSE c \in 1..26 : LowerCase[c] = text[i]]
          ELSE text[i]]

\* Python values that a dict entry holds: a list of strings, or a string
PyList(xs) == [type |-> "list", value |-> xs]
PyStr(text) == [type |-> "str", value |-> text]

\* The objects of the kernel: heap maps an object's identity to the dict it
\* is; a list of dicts is the list of their identities.

\* a copy that makes a new list of the same dict objects
ShallowCopy(heap, list) == [heap |-> heap, list |-> list]

\* copy.deepcopy(list): a new dict object for each dict of the list, holding
\* copies of its entries
DeepCopy(heap, list) ==
    LET n == Len(heap)
    IN  [heap |-> heap \o [k \in 1..Len(list) |-> heap[list[k]]],
         list |-> [k \in 1..Len(list) |-> n + k]]

\* output['label'] = output['label'][0][9:].upper() on the dict `output`
StripLabel(output) ==
    [output EXCEPT !.label = PyStr(Upper(Slice(output.label.value[1], 9, Len(output.label.value[1]))))]

\* predictions = json.loads(response): one dict per sentence sent, with the
\* labels the model predicts (at least one), each with the prefix, and their
\* probabilities (in hundredths)
LabelsInit ==
    \E n \in 0..MaxPredictions :
        \E labels \in [1..n -> SeqsUpTo(Languages, MaxLabels) \ {<<>>}] :
            LET dicts == [k \in 1..n |->
                            [label |-> PyList([j \in 1..Len(labels[k]) |-> LabelPrefix \o labels[k][j]]),
                             prob |-> PyList([j \in 1..Len(labels[k]) |-> 100 \div (j + 1)])]]
            IN  lab = [heap |-> dicts,
                       received |-> dicts,
                       predictions |-> [k \in 1..n |-> k],
                       predictions_copy |-> None,
                       next |-> 0]

\* predictions_copy = copy.deepcopy(predictions)
LabelsDeepCopy ==
    /\ lab.predictions_copy = None
    /\ LET c == DeepCopy(lab.heap, lab.predictions)
       IN  lab' = [lab EXCEPT !.heap = c.heap,
                              !.predictions_copy = Some(c.list),
                              !.next = 1]
    /\ UNCHANGED <<nbVars, bp, ls, up, cm, ts, dp, hp, vd, er>>

\* one turn of `for output in predictions_copy`
LabelsStrip ==
    /\ lab.predictions_copy # None
    /\ lab.next <= Len(lab.predictions_copy[1])
    /\ LET output == lab.predictions_copy[1][lab.next]
       IN  lab' = [lab EXCEPT !.heap[output] = StripLabel(@),
                              !.next = @ + 1]
    /\ UNCHANGED <<nbVars, bp, ls, up, cm, ts, dp, hp, vd, er>>

InitLabels == NotebookIdle /\ LabelsInit /\ OnlyHelper("lab")

NextLabels == LabelsDeepCopy \/ LabelsStrip

SpecLabels == InitLabels /\ [][NextLabels]_vars

----------------------------------------------------------------------------
(* DeepAR notebook: the generated series, the train/test split, the JSON objects *)

data_length == 400
period == 24
prediction_length == 48

\* A time point is the number of hours (freq = "H") since t0 = "2016-01-01 00:00:00".
\* A pandas.Series is its index (the time points) and its data, of equal lengths.
Series(index, data) == [index |-> index, data |-> data]

\* str(n) on two digits
Pad2(n) == IF n < 10 THEN <<"0">> \o Str(n) ELSE Str(n)

\* str(timestamp) for a time point of January 2016 on the hour: '2016-01-DD HH:00:00'
StrTimestamp(h) ==
    <<"2", "0", "1", "6", "-", "0", "1", "-">> \o Pad2(1 + h \div 24) \o <<" ">>
        \o Pad2(h % 24) \o <<":", "0", "0", ":", "0", "0">>

\* pd.date_range(start, freq="H", periods): the time points from start on, an hour apart
DateRange(start, periods) == [i \in 1..periods |-> start + (i - 1)]

\* xs[:stop] for a stop that may be negative (counted from the end) or 0
SliceUntil(xs, stop) ==
    LET e == IF stop < 0 THEN Max(0, Len(xs) + stop) ELSE Min(stop, Len(xs))
    IN  SubSeq(xs, 1, e)

\* ts[:-prediction_length] keeping the first prediction_length points instead
KeepHead(s) == Series(SliceUntil(s.index, prediction_length), SliceUntil(s.data, prediction_length))

\* ts[:-prediction_length]: positional slicing of a series cuts its index and its data alike
DropTail(s) == Series(SliceUntil(s.index, -prediction_length), SliceUntil(s.data, -prediction_length))

\* the values of a generated series: a wave of the given period around a random
\* level (whole numbers here; the level tells one series from another, the
\* position in the period one point from its neighbours)
Wave(level) == [i \in 1..data_length |-> 100 * level + ((i - 1) % period)]

\* series_to_obj(ts) with cat = None: {"start": str(ts.index[0]), "target": list(ts)}
series_to_obj(s) == [start |-> StrTimestamp(s.index[1]), target |-> s.data]

\* time_series = []; the generating loop is about to start
SeriesInit ==
    \E n \in 1..MaxSeries :
        ts = [num_ts |-> n, phase |-> "generate", time_series |-> <<>>,
              time_series_training |-> <<>>, train_file |-> <<>>, test_file |-> <<>>]

\* one turn of `for k in range(num_ts)`: a series of data_length points from t0 on
GenerateSeries ==
    /\ ts.phase = "generate"
    /\ \E level \in 1..MaxLevel :
          LET made == Append(ts.time_series, Series(DateRange(0, data_length), Wave(level)))
          IN  ts' = [ts EXCEPT !.time_series = made,
                               !.phase = IF Len(made) = ts.num_ts THEN "split" ELSE "generate"]
    /\ UNCHANGED <<nbVars, bp, ls, up, cm, lab, dp, hp, vd, er>>

\* one turn of `for ts in time_series: time_series_training.append(ts[:-prediction_length])`
SplitSeries ==
    /\ ts.phase = "split"
    /\ LET k == Len(ts.time_series_training) + 1
           made == Append(ts.time_series_training, DropTail(ts.time_series[k]))
       IN  ts' = [ts EXCEPT !.time_series_training = made,
                            !.phase = IF Len(made) = ts.num_ts THEN "write" ELSE "split"]
    /\ UNCHANGED <<nbVars, bp, ls, up, cm, lab, dp, hp, vd, er>>

\* the cell that writes train.json and test.json: one JSON object per line, from
\* series_to_jsonline, for each series of time_series_training and of time_series
WriteSeriesFiles ==
    /\ ts.phase = "write"
    /\ ts' = [ts EXCEPT !.train_file = [k \in 1..ts.num_ts |-> series_to_obj(ts.time_series_training[k])],
                        !.test_file = [k \in 1..ts.num_ts |-> series_to_obj(ts.time_series[k])],
                        !.phase = "done"]
    /\ UNCHANGED <<nbVars, bp, ls, up, cm, lab, dp, hp, vd, er>>

InitSeries == NotebookIdle /\ SeriesInit /\ OnlyHelper("ts")

NextSeries == GenerateSeries \/ SplitSeries \/ WriteSeriesFiles

SpecSeries == InitSeries /\ [][NextSeries]_vars

----------------------------------------------------------------------------
(* DeepARPredictor of the DeepAR notebook *)

\* the values set_prediction_parameters is called with: the notebook passes
\* freq = "H" and prediction_length; a caller may pass another length
PredictionLengthChoices == {period, prediction_length}

\* a series handed to predict: `len` points from t0 on
RequestSeries(len, level) ==
    Series(DateRange(0, len), [i \in 1..len |-> 100 * level + ((i - 1) % period)])

\* the lists of series handed to predict: up to MaxRequestSeries series of 1..MaxPoints points
RequestLists ==
    UNION {[1..m -> {RequestSeries(len, 1) : len \in 1..MaxPoints}] : m \in 0..MaxRequestSeries}

\* x.index[-1] + pd.Timedelta(1, unit=self.freq), with freq = "H" and time in hours
NextTimePoint(x) == x.index[Len(x.index)] + 1

\* __encode_request with cat = None: the instances and the configuration
EncodeRequest(series) ==
    [instances |-> [k \in 1..Len(series) |-> series_to_obj(series[k])],
     configuration |-> [num_samples |-> 100, output_types |-> <<"quantiles">>,
                        quantiles |-> <<"0.1", "0.5", "0.9">>]]

\* the endpoint's answer to a request: for each instance the quantiles asked for,
\* each a list of as many values as the model was trained to predict (the
\* hyperparameter prediction_length)
EndpointForecast(req) ==
    [predictions |->
        [k \in 1..Len(req.instances) |->
            LET target == req.instances[k].target
                last == target[Len(target)]
            IN  [quantiles |-> [q01 |-> [i \in 1..prediction_length |-> last - 1],
                                q05 |-> [i \in 1..prediction_length |-> last],
                                q09 |-> [i \in 1..prediction_length |-> last + 1]]]]]

\* pd.DataFrame(data = {quantile: values}, index = index): a ValueError unless
\* every list of values is as long as the index
DataFrame(data, index) ==
    IF \A q \in DOMAIN data : Len(data[q]) = Len(index)
      THEN [raised |-> FALSE, index |-> index, data |-> data]
      ELSE [raised |-> TRUE, index |-> <<>>, data |-> data]

\* __decode_response: one frame per prediction time, indexed by
\* pd.date_range(start = prediction_times[k], freq = self.freq, periods = self.prediction_length)
DecodeResponse(self, response_data, prediction_times) ==
    [k \in 1..Len(prediction_times) |->
        DataFrame(response_data.predictions[k].quantiles,
                  DateRange(prediction_times[k], self.prediction_length[1]))]

\* the last predict call: what the predictor's attributes were when it was made,
\* whether a request was sent, and how it ended
NoCall == [made |-> FALSE, paramsSet |-> FALSE, periods |-> None, series |-> <<>>,
           sent |-> FALSE, outcome |-> "none", list_of_df |-> <<>>]

\* predictor = DeepARPredictor(endpoint_name=..., sagemaker_session=...): the
\* object has neither a freq nor a prediction_length attribute yet
PredictorInit ==
    dp = [freq |-> None, prediction_length |-> None, requests |-> <<>>, call |-> NoCall]

\* predictor.set_prediction_parameters(freq, prediction_length)
SetPredictionParameters ==
    /\ \E n \in PredictionLengthChoices :
          dp' = [dp EXCEPT !.freq = Some("H"), !.prediction_length = Some(n)]
    /\ UNCHANGED <<nbVars, bp, ls, up, cm, lab, ts, hp, vd, er>>

\* predictor.predict(series): reading self.freq for the first series raises an
\* AttributeError if the attribute was never set (with no series it is not
\* read); then the request is encoded and sent; the endpoint answers or the
\* call raises; then the answer is decoded, reading self.prediction_length for
\* each prediction time
Predict ==
    /\ Len(dp.requests) < MaxPredictCalls
    /\ \E series \in RequestLists, answered \in BOOLEAN :
          LET called == [NoCall EXCEPT !.made = TRUE, !.series = series,
                                       !.paramsSet = (dp.freq # None),
                                       !.periods = dp.prediction_length]
              req == EncodeRequest(series)
              frames == DecodeResponse(dp, EndpointForecast(req),
                                       [k \in 1..Len(series) |-> NextTimePoint(series[k])])
          IN  IF series # <<>> /\ dp.freq = None
                THEN /\ answered
                     /\ dp' = [dp EXCEPT !.call = [called EXCEPT !.outcome = "AttributeError"]]
              ELSE IF ~answered
                THEN dp' = [dp EXCEPT !.requests = Append(@, req),
                                      !.call = [called EXCEPT !.sent = TRUE,
                                                              !.outcome = "endpoint error"]]
              ELSE IF series # <<>> /\ \E k \in 1..Len(series) : frames[k].raised
                THEN dp' = [dp EXCEPT !.requests = Append(@, req),
                                      !.call = [called EXCEPT !.sent = TRUE,
                                                              !.outcome = "ValueError"]]
              ELSE dp' = [dp EXCEPT !.requests = Append(@, req),
                                    !.call = [called EXCEPT !.sent = TRUE,
                                                            !.outcome = "returned",
                                                            !.list_of_df = IF series = <<>> THEN <<>> ELSE frames]]
    /\ UNCHANGED <<nbVars, bp, ls, up, cm, lab, ts, hp, vd, er>>

InitPredictor == NotebookIdle /\ PredictorInit /\ OnlyHelper("dp")

NextPredictor == SetPredictionParameters \/ Predict

SpecPredictor == InitPredictor /\ [][NextPredictor]_vars

----------------------------------------------------------------------------
(* Training splits and num_training_samples of the image notebooks *)

\* Caltech-256: 257 categories, each of 80 to about 800 images
CaltechCategories == 257
CaltechCategorySizes == {80, 800}
TrainPerCategory == 60
\* multi-label COCO: head -n 2500 of the shuffled list
MultilabelTrainRows == 2500
\* COCO object detection: 4952 annotated images, jsons[:4452] for training
AnnotatedImages == 4952
CocoTrainJsons == 4452

\* set_hyperparameters of the Caltech notebook with the figure its text gives
CaltechHyperparametersAsDescribed == [num_classes |-> 257, num_training_samples |-> 15240]

\* ic.set_hyperparameters(..., num_classes=257, ..., num_training_samples=15420, ...)
CaltechHyperparameters == [num_classes |-> 257, num_training_samples |-> 15420]

\* multilabel_ic.set_hyperparameters(..., num_classes=5, ..., num_training_samples=2500, ...)
MultilabelHyperparameters == [num_classes |-> 5, num_training_samples |-> 2500]

\* od_model.set_hyperparameters(..., num_classes=80, ..., num_training_samples=4452)
CocoHyperparameters == [num_classes |-> 80, num_training_samples |-> 4452]

\* `head -n n` of a file of `rows` lines: the number of lines it lets through
HeadN(n, rows) == Min(n, rows)

SplitInit ==
    \E n \in {"ic_lst", "ic_multilabel", "od_json"} :
        hp = [notebook |-> n, categories |-> 0, split |-> FALSE, train |-> 0,
              validation |-> 0, hyperparameters |-> None]

\* one turn of `for i in 256_ObjectCategories/*`: 60 of the category's images,
\* drawn at random, are moved to the training folder, the others stay for validation
CaltechSplitCategory ==
    /\ hp.notebook = "ic_lst" /\ ~hp.split
    /\ \E size \in CaltechCategorySizes :
          LET moved == HeadN(TrainPerCategory, size)
          IN  hp' = [hp EXCEPT !.categories = @ + 1,
                               !.train = @ + moved,
                               !.validation = @ + (size - moved),
                               !.split = (hp.categories + 1 = CaltechCategories)]
    /\ UNCHANGED <<nbVars, bp, ls, up, cm, lab, ts, dp, vd, er>>

\* shuf image.lst > im.lst; head -n 2500 im.lst > ...train.lst; tail -n +2501 im.lst > ...val.lst
MultilabelSplit ==
    /\ hp.notebook = "ic_multilabel" /\ ~hp.split
    /\ \E rows \in MultilabelTrainRows..(MultilabelTrainRows + MaxValidationRows) :
          LET train == HeadN(MultilabelTrainRows, rows)
          IN  hp' = [hp EXCEPT !.train = train, !.validation = rows - train, !.split = TRUE]
    /\ UNCHANGED <<nbVars, bp, ls, up, cm, lab, ts, dp, vd, er>>

\* train_jsons = jsons[:4452]; val_jsons = jsons[4452:]
CocoSplit ==
    /\ hp.notebook = "od_json" /\ ~hp.split
    /\ LET train == SliceLen(AnnotatedImages, 0, CocoTrainJsons)
       IN  hp' = [hp EXCEPT !.train = train, !.validation = AnnotatedImages - train,
                            !.split = TRUE]
    /\ UNCHANGED <<nbVars, bp, ls, up, cm, lab, ts, dp, vd, er>>

\* the set_hyperparameters cell of each notebook
SetHyperparameters ==
    /\ hp.split /\ hp.hyperparameters = None
    /\ hp' = [hp EXCEPT !.hyperparameters =
                 Some(CASE hp.notebook = "ic_lst" -> CaltechHyperparameters
                        [] hp.notebook = "ic_multilabel" -> MultilabelHyperparameters
                        [] OTHER -> CocoHyperparameters)]
    /\ UNCHANGED <<nbVars, bp, ls, up, cm, lab, ts, dp, vd, er>>

InitSamples == NotebookIdle /\ SplitInit /\ OnlyHelper("hp")

NextSamples == CaltechSplitCategory \/ MultilabelSplit \/ CocoSplit \/ SetHyperparameters

SpecSamples == InitSamples /\ [][NextSamples]_vars

----------------------------------------------------------------------------
(* visualize_detection of the object detection notebooks *)

\* confidence scores and thresholds in hundredths: the notebooks call with
\* threshold = 0.20, the default is thresh = 0.6
ThreshChoices == {20, 60}
ScoreChoices == {19, 20, 21}

\* `if score < thresh: continue` does not skip the detection
Plotted(score, thresh) == ~(score < thresh)

\* visualize_detection(img_file, dets, classes, thresh): the image is shown and
\* the loop over dets is about to start; each row of dets is
\* [klass, score, x0, y0, x1, y1], of which the class and the score are kept here
DetectionsInit ==
    \E thresh \in ThreshChoices, n \in 0..MaxDetections :
        \E scores \in [1..n -> ScoreChoices] :
            vd = [dets |-> [k \in 1..n |-> [klass |-> k % 2, score |-> scores[k]]],
                  thresh |-> thresh, next |-> 1, patches |-> <<>>]

\* one turn of `for det in dets`: unless score < thresh, a rectangle and a text
\* with the class name and the score are added to the plot
VisualizeDetection ==
    /\ vd.next <= Len(vd.dets)
    /\ LET det == vd.dets[vd.next]
       IN  vd' = [vd EXCEPT !.next = @ + 1,
                            !.patches = IF Plotted(det.score, vd.thresh)
                                          THEN Append(@, [det |-> vd.next, cls_id |-> det.klass,
                                                          score |-> det.score])
                                          ELSE @]
    /\ UNCHANGED <<nbVars, bp, ls, up, cm, lab, ts, dp, hp, er>>

InitDetections == NotebookIdle /\ DetectionsInit /\ OnlyHelper("vd")

NextDetections == VisualizeDetection

SpecDetections == InitDetections /\ [][NextDetections]_vars

----------------------------------------------------------------------------
(* error_rate of the MNIST notebook *)

\* the digits that occur as predictions and labels
DigitChoices == {0, 9}

\* numpy.sum(predictions == labels): the number of positions where the two agree
CountEqual(predictions, labels) ==
    Cardinality({i \in 1..Len(predictions) : predictions[i] = labels[i]})

\* a quotient of two whole numbers, kept exact
Quotient(num, den) == [num |-> num, den |-> den]

\* numpy.zeros([10, 10], numpy.int32)
Zeros == [predicted \in 0..9 |-> [actual \in 0..9 |-> 0]]

\* the tally with rows and columns swapped: confusions[int(actual), int(predicted)] += 1
TallyTransposed(confusions, predicted, actual) ==
    [confusions EXCEPT ![actual][predicted] = @ + 1]

\* confusions[int(predicted), int(actual)] += 1 (a count is at most the number of
\* test lines, far below the range of int32)
Tally(confusions, predicted, actual) ==
    [confusions EXCEPT ![predicted][actual] = @ + 1]

\* the batch evaluation cell:
\* sum(1 for i in range(len(preds)) if preds[i] != labels[i]) / float(len(preds))
BatchErrorRate(preds, labels) ==
    Quotient(Cardinality({i \in 1..Len(preds) : preds[i] # labels[i]}), Len(preds))

\* preds and labels of the batch evaluation cell, one per line of the test file
ErrorRateInit ==
    \E n \in 1..MaxTestLines :
        \E predictions \in [1..n -> DigitChoices], labels \in [1..n -> DigitChoices] :
            er = [predictions |-> predictions, labels |-> labels, loc |-> "call",
                  correct |-> 0, total |-> 0, error |-> None, confusions |-> None,
                  next |-> 0, returned |-> None]

\* error_rate up to its loop: correct, total, error = 100.0 - (100 * float(correct) / float(total)),
\* confusions = zeros
ErrorRateBegin ==
    /\ er.loc = "call"
    /\ LET correct == CountEqual(er.predictions, er.labels)
           total == Len(er.predictions)
       IN  er' = [er EXCEPT !.correct = correct,
                            !.total = total,
                            !.error = Some(Quotient(100 * total - 100 * correct, total)),
                            !.confusions = Some(Zeros),
                            !.next = 1,
                            !.loc = "loop"]
    /\ UNCHANGED <<nbVars, bp, ls, up, cm, lab, ts, dp, hp, vd>>

\* one turn of `for predicted, actual in bundled`; after the last one
\* `return error, confusions`
ErrorRateTally ==
    /\ er.loc = "loop"
    /\ LET tallied == Tally(er.confusions[1], er.predictions[er.next], er.labels[er.next])
           last == er.next = Len(er.predictions)
       IN  er' = [er EXCEPT !.confusions = Some(tallied),
                            !.next = @ + 1,
                            !.loc = IF last THEN "returned" ELSE "loop",
                            !.returned = IF last THEN Some([error |-> er.error[1],
                                                            confusions |-> tallied])
                                                 ELSE None]
    /\ UNCHANGED <<nbVars, bp, ls, up, cm, lab, ts, dp, hp, vd>>

InitErrorRate == NotebookIdle /\ ErrorRateInit /\ OnlyHelper("er")

NextErrorRate == ErrorRateBegin \/ ErrorRateTally

SpecErrorRate == InitErrorRate /\ [][NextErrorRate]_vars

----------------------------------------------------------------------------
(* Reading text back, for the properties below *)

CeilDiv(a, b) == (a + b - 1) \div b

\* text.split(sep) for a one-character separator
RECURSIVE Split(_, _)
Split(text, sep) ==
    IF \E i \in 1..Len(text) : text[i] = sep
      THEN LET i == CHOOSE i \in 1..Len(text) :
                        text[i] = sep /\ \A j \in 1..(i - 1) : text[j] # sep
           IN  <<SubSeq(text, 1, i - 1)>> \o Split(SubSeq(text, i + 1, Len(text)), sep)
      ELSE <<text>>

\* the digit a character stands for, -1 if it is no digit
DigitValue(c) ==
    IF \E d \in 1..10 : DigitChars[d] = c
      THEN (CHOOSE d \in 1..10 : DigitChars[d] = c) - 1
      ELSE -1

\* the natural number a text spells in decimal, -1 if it spells none
RECURSIVE ParseNat(_)
ParseNat(cs) ==
    IF cs = <<>> THEN -1
    ELSE LET d == DigitValue(cs[Len(cs)])
         IN  IF d < 0 THEN -1
             ELSE IF Len(cs) = 1 THEN d
             ELSE LET r == ParseNat(SubSeq(cs, 1, Len(cs) - 1))
                  IN  IF r < 0 THEN -1 ELSE 10 * r + d

----------------------------------------------------------------------------
(* Properties *)

\* C1: the abalone training poll loop leaves as soon as it has observed a terminal
\* TrainingJobStatus (Completed, Failed or Stopped): it never sleeps and polls
\* again on a terminal status, so once the job has ended the loop ends.
C1_PollLoopExitsOnTerminal == repolledOn \cap TerminalJobStatus = {}

\* C2: in the notebooks that call create_training_job themselves, a job that ended
\* Failed has no model, endpoint configuration or endpoint made from it, and no
\* job is submitted twice.
C2_FailedJobStopsRun ==
    /\ (nb \in RawNotebooks /\ trainingJob[TrainJob(nb)] = "Failed")
          => (modelFrom = "none" /\ ~configCreated /\ epLog.creates = 0)
    /\ \A j \in JobNames : submits[j] <= 1

\* C3: create_model is called for a training job only when describe_training_job
\* has returned Completed for it: never while it is InProgress or Stopping, nor
\* after it ended Stopped or Failed.
C3_CreateModelOnlyAfterCompleted ==
    nb \in RawNotebooks => modelFrom \in {"none", "Completed"}

\* C4: in the MNIST, abalone and seq2seq notebooks invoke_endpoint is called only
\* when the last EndpointStatus the notebook observed is InService.
C4_InvokeOnlyInService ==
    nb \in RawNotebooks => invokedOn \subseteq {"InService"}

\* C5: in the MNIST notebook both training jobs are submitted before the wait
\* starts, and the statuses read by the cell that confirms both jobs have finished
\* are both terminal.
C5_BothJobsFinishedAtConfirm ==
    /\ (nb = "mnist" /\ Cur = "mnist_train" /\ loc = "wait")
          => (submits["single_machine_job_name"] = 1 /\ submits["distributed_job_name"] = 1)
    /\ printed # <<>>
          => (printed[1] \in TerminalJobStatus /\ printed[2] \in TerminalJobStatus)

C7_SpotSettings ==
    spot.defined =>
        /\ (spot.max_wait # None) <=> spot.use_spot_instances
        /\ spot.max_wait # None => spot.max_wait[1] >= spot.max_run[1]
        /\ nb = "xgb_spot" => ((spot.checkpoint_s3_uri # None) <=> spot.use_spot_instances)

\* C7 witness: the XGBoost settings cell has run with spot instances enabled
C7_Witness ==
    nb = "xgb_spot" /\ spot.defined /\ spot.use_spot_instances /\ spot.max_wait # None

\* what C8 says of the batches and the predictions of one batch_predict
BatchesAsClaimed(r) ==
    LET n == Len(bp.data)
        b == bp.batch_size
    IN  /\ Len(r.calls) = CeilDiv(n, b)
        /\ \A k \in 1..Len(r.calls) :
              /\ Len(r.calls[k]) >= 1 /\ Len(r.calls[k]) <= b
              /\ r.calls[k] = SubSeq(bp.data, (k - 1) * b + 1, Min(k * b, n))
        /\ Len(r.arrs) = n
        /\ n = 0 => (r.calls = <<>> /\ r.arrs = <<>>)

\* C8: each batch_predict makes ceil(n / batch_size) do_predict calls of 1 to
\* batch_size items, the k-th being the k-th contiguous slice of the data, and
\* returns n predictions, the i-th being the endpoint's for item i; with no data
\* it makes no call; the two implementations send the same batches.
C8_BatchPredict ==
    /\ "mnist" \in bp.ran =>
          /\ BatchesAsClaimed(bp.mnist)
          /\ \A i \in 1..Len(bp.data) : bp.mnist.arrs[i] = EndpointScore(bp.data[i])
    /\ "abalone" \in bp.ran =>
          /\ BatchesAsClaimed(bp.abalone)
          /\ \A i \in 1..Len(bp.data) : bp.abalone.arrs[i] = Ceil(EndpointScore(bp.data[i]))
    /\ bp.ran = {"mnist", "abalone"} => bp.mnist.calls = bp.abalone.calls

\* C8 witness: both have run on data whose last batch is shorter than the others
C8_Witness ==
    /\ bp.ran = {"mnist", "abalone"}
    /\ Len(bp.data) > bp.batch_size
    /\ Len(bp.data) % bp.batch_size # 0
    /\ Len(bp.abalone.calls) = CeilDiv(Len(bp.data), bp.batch_size)

\* C9: the BlazingText vector loop issues no more than ceil(total_words / 500)
\* requests, none carrying more than 500 words, and when the notebook is past the
\* loop it has made exactly that many requests and holds a vector for every word.
C9_VectorLoopTerminates ==
    nb = "blazingtext" =>
        /\ bt.requests <= CeilDiv(bt.total_words, batch_size)
        /\ bt.maxPayload <= batch_size
        /\ Cur \in {"delete_endpoint", "end"} =>
              /\ bt.requests = CeilDiv(bt.total_words, batch_size)
              /\ bt.nvectors = bt.total_words

\* C10: to_libsvm returns the file object it was given, holding one line per
\* example, the lines separated by single newlines with none at the end; line k is
\* the label L[k], a space, and the pairs i:V[k][i-1] for i = 1..d in increasing
\* order separated by single spaces.
C10_ToLibsvmFormat ==
    ls.returned.object # "none" =>
        LET n == Len(ls.labels)
            text == ls.returned.content
            lines == IF text = <<>> THEN <<>> ELSE Split(text, NL)
        IN  /\ ls.returned.object = "BytesIO"
            /\ Len(lines) = n
            /\ n > 0 => text[Len(text)] # NL
            /\ \A k \in 1..n :
                  LET fields == Split(lines[k], " ")
                      d == Len(ls.values[k])
                  IN  /\ ParseNat(fields[1]) = ls.labels[k]
                      /\ IF d = 0
                           THEN fields = <<Str(ls.labels[k]), <<>> >>
                           ELSE /\ Len(fields) = d + 1
                                /\ \A i \in 1..d :
                                      LET kv == Split(fields[i + 1], ":")
                                      IN  /\ Len(kv) = 2
                                          /\ ParseNat(kv[1]) = i
                                          /\ ParseNat(kv[2]) = ls.values[k][i]

\* C10 witness: two examples written, the first a vector of two components, one of them zero
C10_Witness ==
    /\ ls.returned.object # "none"
    /\ Len(ls.labels) = 2
    /\ Len(ls.values[1]) = 2
    /\ ls.values[1][2] = 0
    /\ Len(ls.returned.content) > 0

\* the lines of an uploaded object, in order
LinesOf(body) == IF body = <<>> THEN <<>> ELSE Split(body, NL)

\* C11: when upload_to_s3 has returned, the bucket holds the five objects
\* examples0..examples4 of the partition, and their lines taken in that order are
\* the examples of the partition in the original order, each label with its own
\* vector, every example once and none left out.
C11_UploadKeepsEveryExample ==
    up.i = num_partition =>
        /\ Len(up.bucket) = 5
        /\ \A i \in 1..5 : up.bucket[i].key = <<up.partition_name, "examples", i - 1>>
        /\ Extend([i \in 1..5 |-> LinesOf(up.bucket[i].body)])
             = [k \in 1..Len(up.labels) |-> LibsvmLine(up.labels[k], up.vectors[k])]

\* the ids the COCO annotation files use
OriginalIds == {original_list[i] : i \in 1..Len(original_list)}

\* C12: the mapper built from the 80 original COCO category ids is defined on
\* exactly those ids, is injective, has range exactly 0..79 and preserves the
\* order of the ids; a look-up of a listed id returns its label, and a look-up of
\* any other id raises instead of returning a label.
C12_CocoMapper ==
    cm.built =>
        /\ Cardinality(OriginalIds) = 80
        /\ DOMAIN cm.COCO = OriginalIds
        /\ {cm.COCO[c] : c \in OriginalIds} = 0..79
        /\ \A c, d \in OriginalIds : c < d => cm.COCO[c] < cm.COCO[d]
        /\ cm.in_category # -1 =>
              IF cm.in_category \in OriginalIds
                THEN ~cm.result.raised /\ cm.result.value = cm.COCO[cm.in_category]
                ELSE cm.result.raised

\* C12 witness: id 90, the last one, was looked up and got label 79
C12_Witness ==
    cm.built /\ cm.in_category = 90 /\ ~cm.result.raised /\ cm.result.value = 79

\* C12 witness of the error path: id 12, which COCO skips, was looked up and the look-up raised
C12_WitnessUnknownId == cm.built /\ cm.in_category = 12 /\ cm.result.raised

\* C13: once the stripping loop has run, every dict of predictions is as the
\* endpoint returned it, each of its labels still carrying the '__label__'
\* prefix, and entry k of predictions_copy has as its label the first label
\* predicted for sentence k without its first 9 characters, upper-cased (the
\* language code in capitals); its probabilities are untouched.
C13_StripOnDeepCopy ==
    (lab.predictions_copy # None /\ lab.next > Len(lab.predictions)) =>
        /\ Len(lab.predictions_copy[1]) = Len(lab.predictions)
        /\ \A k \in 1..Len(lab.predictions) :
              LET orig == lab.heap[lab.predictions[k]]
                  copy == lab.heap[lab.predictions_copy[1][k]]
                  first == lab.received[k].label.value[1]
              IN  /\ orig.label.type = "list"
                  /\ orig = lab.received[k]
                  /\ \A j \in 1..Len(orig.label.value) :
                        SubSeq(orig.label.value[j], 1, 9) = LabelPrefix
                  /\ copy.label.type = "str"
                  /\ copy.label.value = Upper(SubSeq(first, 10, Len(first)))
                  /\ LabelPrefix \o [i \in 1..Len(copy.label.value) |->
                        LowerCase[CHOOSE c \in 1..26 : UpperCase[c] = copy.label.value[i]]] = first
                  /\ copy.prob = orig.prob

\* C13 witness: two predictions stripped, the first with two labels of which 'fr' comes first
C13_Witness ==
    /\ lab.predictions_copy # None
    /\ Len(lab.predictions) = 2
    /\ lab.next = 3
    /\ Len(lab.received[1].label.value) = 2
    /\ lab.heap[lab.predictions_copy[1][1]].label = PyStr(<<"F", "R">>)
    /\ lab.heap[lab.predictions[1]].label.value[1] = LabelPrefix \o <<"f", "r">>

\* C14: every series of time_series_training starts where the series of
\* time_series it was cut from starts, has data_length - prediction_length
\* points, and is point for point (time and value) the prefix of that series,
\* which keeps all its data_length points; the objects written for the two
\* files have the series' first time point as start and all its values, in
\* order, as target.
C14_TrainingIsPrefix ==
    /\ \A k \in 1..Len(ts.time_series_training) :
          LET full == ts.time_series[k]
              train == ts.time_series_training[k]
          IN  /\ Len(full.data) = data_length /\ Len(full.index) = data_length
              /\ Len(train.data) = data_length - prediction_length
              /\ Len(train.index) = Len(train.data)
              /\ train.index[1] = full.index[1]
              /\ \A i \in 1..Len(train.data) :
                    train.index[i] = full.index[i] /\ train.data[i] = full.data[i]
    /\ ts.phase = "done" =>
          /\ Len(ts.train_file) = ts.num_ts /\ Len(ts.test_file) = ts.num_ts
          /\ \A k \in 1..ts.num_ts :
                /\ ts.train_file[k].start = StrTimestamp(ts.time_series_training[k].index[1])
                /\ ts.train_file[k].start = <<"2", "0", "1", "6", "-", "0", "1", "-", "0", "1", " ",
                                              "0", "0", ":", "0", "0", ":", "0", "0">>
                /\ ts.train_file[k].target = ts.time_series_training[k].data
                /\ ts.test_file[k].start = ts.train_file[k].start
                /\ ts.test_file[k].target = ts.time_series[k].data
                /\ Len(ts.test_file[k].target) = Len(ts.train_file[k].target) + prediction_length

\* C14 witness: both files written for two series of different levels
C14_Witness ==
    /\ ts.phase = "done"
    /\ ts.num_ts = 2
    /\ ts.time_series[1].data # ts.time_series[2].data
    /\ Len(ts.train_file[2].target) = 352
    /\ Len(ts.test_file[2].target) = 400

\* C15: a predict call on a predictor whose set_prediction_parameters was never
\* called raises without a request having been sent; a predict call made after
\* set_prediction_parameters(freq, n) on m series sends one request of m
\* instances and, the endpoint answering, returns m frames, frame k indexed by
\* n consecutive time points of which the first is one freq unit after the last
\* time point of series k.
C15_ParametersBeforePredict ==
    dp.call.made =>
        LET c == dp.call
            m == Len(c.series)
        IN  IF ~c.paramsSet
              THEN ~c.sent /\ c.outcome = "AttributeError"
              ELSE /\ c.sent
                   /\ Len(dp.requests[Len(dp.requests)].instances) = m
                   /\ c.outcome # "endpoint error" =>
                         /\ c.outcome = "returned"
                         /\ Len(c.list_of_df) = m
                         /\ \A k \in 1..m :
                               LET x == c.series[k]
                                   index == c.list_of_df[k].index
                               IN  /\ Len(index) = c.periods[1]
                                   /\ index[1] = x.index[Len(x.index)] + 1
                                   /\ \A i \in 1..(Len(index) - 1) : index[i + 1] = index[i] + 1

C16_WitnessMultilabel ==
    /\ hp.notebook = "ic_multilabel" /\ hp.hyperparameters # None /\ hp.validation > 0

\* C17: when visualize_detection has gone through the detections, a bounding box
\* has been drawn for a detection if and only if its score is strictly greater
\* than thresh; none is drawn for a detection whose score equals thresh.
C17_PlotsOnlyAboveThreshold ==
    vd.next > Len(vd.dets) =>
        \A k \in 1..Len(vd.dets) :
            (\E p \in 1..Len(vd.patches) : vd.patches[p].det = k) <=> vd.dets[k].score > vd.thresh

RECURSIVE SumTo(_, _)
\* f[0] + ... + f[n]
SumTo(f, n) == IF n < 0 THEN 0 ELSE f[n] + SumTo(f, n - 1)

\* C18: error_rate on n >= 1 predictions and labels in 0..9 returns a 10x10
\* matrix whose entry [p][a] is the number of positions with prediction p and
\* label a, so that its entries sum to n and its diagonal to the number of
\* correct predictions, and an error equal to 100 - 100 * correct / n, which is
\* 100 times the error rate of the batch evaluation cell.
C18_ErrorRateConfusions ==
    er.returned # None =>
        LET n == Len(er.predictions)
            correct == Cardinality({i \in 1..n : er.predictions[i] = er.labels[i]})
            confusions == er.returned[1].confusions
            error == er.returned[1].error
            rate == BatchErrorRate(er.predictions, er.labels)
        IN  /\ \A p, a \in 0..9 :
                  confusions[p][a] = Cardinality({i \in 1..n : er.predictions[i] = p /\ er.labels[i] = a})
            /\ SumTo([p \in 0..9 |-> SumTo(confusions[p], 9)], 9) = n
            /\ SumTo([p \in 0..9 |-> confusions[p][p]], 9) = correct
            /\ error.den = n /\ error.num = 100 * n - 100 * correct
            /\ error.num * rate.den = 100 * rate.num * error.den

\* C18 witness: three predictions, one right, and a 0 predicted for a 9 twice
C18_Witness ==
    /\ er.returned # None
    /\ Len(er.predictions) = 3
    /\ er.returned[1].confusions[0][9] = 2
    /\ er.returned[1].confusions[9][0] = 0
    /\ er.returned[1].confusions[9][9] = 1
    /\ er.returned[1].error = Quotient(200, 3)

\* the seq2seq run was halted by the InService test that follows the endpoint waiter
Seq2SeqCreationFailedRaised ==
    nb = "seq2seq" /\ raised /\ Cur = "seq2seq_create_endpoint" /\ loc = "check"

\* C19: when the seq2seq notebook has raised 'Endpoint creation failed.', the
\* status it read is not InService, and the endpoint, its endpoint configuration
\* and the model are still there: the endpoint was created once, no
\* delete_endpoint and no invoke_endpoint call has been issued on it, and the
\* run does not go on to the cells that would.
C19_FailedEndpointLeftBehind ==
    Seq2SeqCreationFailedRaised =>
        /\ status # "InService"
        /\ epLog.creates = 1 /\ epLog.deletes = 0 /\ ~epLog.invoked
        /\ epLog.last = "describe"
        /\ invokedOn = {}
        /\ endpointStatus \notin {"NotCreated", "Deleted"}
        /\ configCreated
        /\ modelFrom # "none"
        /\ ~Running

\* C19 witness: the InService test raised on an endpoint whose creation failed
C19_Witness == Seq2SeqCreationFailedRaised /\ status = "Failed" /\ endpointStatus = "Failed"

====
